---- MODULE Spec2Model ----
(***************************************************************************)
(* Car rental booking engine (Car_rental/database.py) with the customer    *)
(* booking flow that calls it (Car_rental/ui/customer_dashboard.py).       *)
(*                                                                         *)
(* The Firestore collections are functions from document ids to records;   *)
(* a document that does not exist is an id outside the function's domain.  *)
(* Dates are whole days counted from the current day.                      *)
(***************************************************************************)
EXTENDS Integers, Sequences, FiniteSets, TLC

\* ---------------------------------------------------------------- bounds
MaxDay == 2
MaxBookings == 2
\* The last day of the dates a price is computed for.
MaxPriceDay == 3
\* The user documents the store holds at most.
MaxUsers == 2

Days == 0..MaxDay
BookingIds == 1..MaxBookings
FreshBookingIds == 1..(MaxBookings + 1)
PaymentIds == 1..MaxBookings
CarIds == {"CAR_A", "CAR_B"}

NoId == 0
NoCar == "none"
\* The current day, datetime.now().date(): days are counted from it.
Today == 0
\* The store calls that can raise: the Active-bookings query, a document
\* read, a document set, and the two document updates.
Faults == {"query", "get", "set", "update_booking", "update_car"}

\* The application instances that run create_booking at the same time.
Instances == {1, 2}

VARIABLES cars, bookings, payments, last, procs, quote, users, auth, reply,
          form, current_user

vars == <<cars, bookings, payments, last, procs, quote, users, auth, reply,
          form, current_user>>

\* What the serialized booking operations and handlers leave alone: the
\* state of the concurrent instances, the price being computed, the user
\* accounts, the open car form, the session.
aside == <<procs, quote, users, auth, reply, form, current_user>>

\* ------------------------------------------------------------- utilities
Min(S) == CHOOSE x \in S : \A y \in S : x <= y

RECURSIVE SeqOf(_)
SeqOf(S) == IF S = {} THEN <<>> ELSE <<Min(S)>> \o SeqOf(S \ {Min(S)})

\* generate_id: an id no stored document of the collection has.
generate_id(pool, used) == Min(pool \ used)

\* utils.calculate_days / calculate_total_amount
\* Mutant of calculate_days: the floor of one day left out.
calculate_days_unfloored(start_date, end_date) == end_date - start_date

calculate_days(start_date, end_date) ==
    IF end_date - start_date > 1 THEN end_date - start_date ELSE 1

calculate_total_amount(daily_rate, start_date, end_date) ==
    daily_rate * calculate_days(start_date, end_date)

\* The daily rate the administrator entered for each car.
DailyRate(c) == IF c = "CAR_A" THEN 1500 ELSE 900

\* models.Car / models.Booking / models.Payment as stored documents
Car(car_id, status) ==
    [car_id |-> car_id, daily_rate |-> DailyRate(car_id), status |-> status]

Booking(booking_id, car_id, start_date, end_date, total_amount) ==
    [booking_id |-> booking_id, car_id |-> car_id, start_date |-> start_date,
     end_date |-> end_date, total_amount |-> total_amount, status |-> "Active"]

\* Mutant of Payment: the booking reference left unset.
PaymentNoBooking(payment_id, booking_id, amount) ==
    [payment_id |-> payment_id, booking_id |-> NoId, amount |-> amount,
     status |-> "Completed"]

Payment(payment_id, booking_id, amount) ==
    [payment_id |-> payment_id, booking_id |-> booking_id, amount |-> amount,
     status |-> "Completed"]

\* The record of the last call: its operation, arguments, injected store
\* faults and return value.
Call(op, bid, car, s, e, faults, ret) ==
    [op |-> op, bid |-> bid, car |-> car, s |-> s, e |-> e,
     faults |-> faults, ret |-> ret]

\* ------------------------------------------------ availability (database)
\* Mutant of the query: the status filter left out.
ActiveBookingsQueryAnyStatus(car_id) ==
    SeqOf({b \in DOMAIN bookings : bookings[b].car_id = car_id})

\* .where('car_id', '==', car_id).where('status', '==', 'Active').get()
ActiveBookingsQuery(car_id) ==
    SeqOf({b \in DOMAIN bookings :
              bookings[b].car_id = car_id /\ bookings[b].status = "Active"})

\* Mutants of the overlap test: the start compared with the existing start,
\* and closed instead of half-open intervals.
DateOverlapWrongField(start_date, end_date, existing_start, existing_end) ==
    ~(end_date <= existing_start \/ start_date >= existing_start)

DateOverlapClosed(start_date, end_date, existing_start, existing_end) ==
    ~(end_date < existing_start \/ start_date > existing_end)

\* not (end_date <= existing_start or start_date >= existing_end)
DateOverlap(start_date, end_date, existing_start, existing_end) ==
    ~(end_date <= existing_start \/ start_date >= existing_end)

\* Mutant of the loop: exclude_booking_id never looked at.
RECURSIVE ScanBookingsNoExclude(_, _, _, _, _)
ScanBookingsNoExclude(docs, start_date, end_date, exclude_booking_id, sameType) ==
    IF docs = <<>> THEN TRUE
    ELSE IF ~sameType THEN FALSE
    ELSE IF DateOverlap(start_date, end_date,
                        bookings[Head(docs)].start_date, bookings[Head(docs)].end_date)
    THEN FALSE
    ELSE ScanBookingsNoExclude(Tail(docs), start_date, end_date,
                               exclude_booking_id, sameType)

\* The for loop of check_car_availability over the fetched documents.
\* sameType is FALSE when the caller passes datetime.date values: comparing
\* them with the stored datetime values raises TypeError, which the
\* function's except clause turns into False.
RECURSIVE ScanBookings(_, _, _, _, _)
ScanBookings(docs, start_date, end_date, exclude_booking_id, sameType) ==
    IF docs = <<>> THEN TRUE
    ELSE LET booking_data == bookings[Head(docs)] IN
         IF exclude_booking_id # NoId /\ booking_data.booking_id = exclude_booking_id
         THEN ScanBookings(Tail(docs), start_date, end_date, exclude_booking_id, sameType)
         ELSE IF ~sameType THEN FALSE
         ELSE IF DateOverlap(start_date, end_date,
                             booking_data.start_date, booking_data.end_date)
         THEN FALSE
         ELSE ScanBookings(Tail(docs), start_date, end_date, exclude_booking_id, sameType)

\* Mutant of check_car_availability: the except clause returning True.
check_car_availability_fail_open(car_id, start_date, end_date, exclude_booking_id, sameType, faults) ==
    IF "query" \in faults THEN TRUE
    ELSE ScanBookings(ActiveBookingsQuery(car_id), start_date, end_date,
                      exclude_booking_id, sameType)

\* Database.check_car_availability; the except clause returns False.
check_car_availability(car_id, start_date, end_date, exclude_booking_id, sameType, faults) ==
    IF "query" \in faults THEN FALSE
    ELSE ScanBookings(ActiveBookingsQuery(car_id), start_date, end_date,
                      exclude_booking_id, sameType)

\* ------------------------------------------------------ store operations
\* document(id).update(data) raises when the document does not exist;
\* update_car catches the exception and returns False.
update_car_ok(car_id, faults) == car_id \in DOMAIN cars /\ "update_car" \notin faults

\* Mutant of update_car_status: the write dropped.
update_car_status_dropped(car_id, status, faults) == cars

\* Mutant of update_car_status: the status written to every car document.
update_car_status_every_car(car_id, status, faults) ==
    [c \in DOMAIN cars |-> [cars[c] EXCEPT !.status = status]]

\* Mutant of update_car_status: a car in Maintenance left alone.
update_car_status_keeps_maintenance(car_id, status, faults) ==
    IF update_car_ok(car_id, faults) /\ cars[car_id].status # "Maintenance"
    THEN [cars EXCEPT ![car_id].status = status]
    ELSE cars

update_car_status(car_id, status, faults) ==
    IF update_car_ok(car_id, faults)
    THEN [cars EXCEPT ![car_id].status = status]
    ELSE cars

\* Mutant of update_booking: the status write lost.
update_booking_dropped(booking_id, status, faults) == bookings

update_booking_ok(booking_id, faults) ==
    booking_id \in DOMAIN bookings /\ "update_booking" \notin faults

update_booking(booking_id, status, faults) ==
    IF update_booking_ok(booking_id, faults)
    THEN [bookings EXCEPT ![booking_id].status = status]
    ELSE bookings

\* get_booking: the document when it exists and the read succeeds.
get_booking_found(booking_id, faults) ==
    booking_id \in DOMAIN bookings /\ "get" \notin faults

\* document(booking_id).set(booking.to_dict())
SetBooking(booking) ==
    [b \in DOMAIN bookings \cup {booking.booking_id} |->
        IF b = booking.booking_id THEN booking ELSE bookings[b]]

\* No call in progress: the application waits in its event loop.
Idle == Call("idle", NoId, NoCar, 0, 0, {}, FALSE)

\* ---------------------------------------------------- booking operations
\* Mutant of create_booking: the availability check left out.
create_booking_ret_unchecked(booking, faults) == "set" \notin faults

\* Mutant of the return value: the result of update_car_status taken into
\* account.
create_booking_ret_all_writes(booking, faults) ==
    /\ check_car_availability(booking.car_id, booking.start_date,
                              booking.end_date, NoId, TRUE, faults)
    /\ "set" \notin faults
    /\ "update_car" \notin faults

\* Mutant of the return value: a car that is not Available refused.
create_booking_ret_by_status(booking, faults) ==
    /\ check_car_availability(booking.car_id, booking.start_date,
                              booking.end_date, NoId, TRUE, faults)
    /\ "set" \notin faults
    /\ booking.car_id \in DOMAIN cars => cars[booking.car_id].status = "Available"

\* Mutant of the return value: a car that is not stored refused.
create_booking_ret_car_exists(booking, faults) ==
    /\ check_car_availability(booking.car_id, booking.start_date,
                              booking.end_date, NoId, TRUE, faults)
    /\ "set" \notin faults
    /\ booking.car_id \in DOMAIN cars

\* Database.create_booking: its return value ...
create_booking_ret(booking, faults) ==
    /\ check_car_availability(booking.car_id, booking.start_date,
                              booking.end_date, NoId, TRUE, faults)
    /\ "set" \notin faults

\* ... and its effect on the store.
create_booking(booking, faults) ==
    IF create_booking_ret(booking, faults)
    THEN /\ bookings' = SetBooking(booking)
         /\ cars' = update_car_status(booking.car_id, "Booked", faults)
    ELSE /\ bookings' = bookings
         /\ cars' = cars

\* Mutant of the shared body: the car status left as it is.
finish_booking_keeps_car(booking_id, status, faults) ==
    /\ bookings' = IF get_booking_found(booking_id, faults)
                   THEN update_booking(booking_id, status, faults)
                   ELSE bookings
    /\ cars' = cars

\* Mutant of the shared body: the booking left as it is, the car freed.
finish_booking_keeps_booking(booking_id, status, faults) ==
    /\ bookings' = bookings
    /\ cars' = IF get_booking_found(booking_id, faults)
               THEN update_car_status(bookings[booking_id].car_id, "Available", faults)
               ELSE cars

\* The body shared by cancel_booking and complete_booking: fetch the booking,
\* write the new status, set the car Available; the results of both writes
\* are ignored.
finish_booking(booking_id, status, faults) ==
    IF get_booking_found(booking_id, faults)
    THEN /\ bookings' = update_booking(booking_id, status, faults)
         /\ cars' = update_car_status(bookings[booking_id].car_id, "Available", faults)
    ELSE /\ bookings' = bookings
         /\ cars' = cars

\* Mutant of the return value: True returned outside the `if booking:`.
finish_booking_ret_always(booking_id, faults) == TRUE

\* if booking: ... return True / return False
finish_booking_ret(booking_id, faults) == get_booking_found(booking_id, faults)

\* Mutant of cancel_booking: the status of complete_booking written.
cancel_booking_completes(booking_id, faults) == finish_booking(booking_id, "Completed", faults)

\* Database.cancel_booking
cancel_booking(booking_id, faults) == finish_booking(booking_id, "Cancelled", faults)

\* Database.complete_booking
complete_booking(booking_id, faults) == finish_booking(booking_id, "Completed", faults)

\* ---------------------------------------------------------------- actions
\* The arguments of a calculate_total_amount call and, once computed, its
\* result with the day count of calculate_days.
Quote(daily_rate, start_date, end_date, computed, days, total) ==
    [daily_rate |-> daily_rate, start_date |-> start_date, end_date |-> end_date,
     computed |-> computed, days |-> days, total |-> total]

NoQuote == Quote(0, 0, 0, FALSE, 0, 0)

\* self.current_user = None
NoUser == [uid |-> NoId, email |-> "", role |-> ""]

\* The result of an AuthManager call: (success, message) and, for login,
\* the user returned, with the call's email argument.
AuthReply(op, email, ok, msg, user) ==
    [op |-> op, email |-> email, ok |-> ok, msg |-> msg, user |-> user]

NoReply == AuthReply("idle", "", FALSE, "", NoUser)

\* The car form of the admin: the car it was opened on with the status its
\* selector shows.
CarForm(car_id, status) == [car_id |-> car_id, status |-> status]

NoForm == CarForm(NoCar, "")

\* An instance that is not inside create_booking.
IdleProc == [pc |-> "idle", booking |-> Booking(NoId, NoCar, 0, 0, 0), ret |-> FALSE]

Init ==
    /\ cars = [c \in CarIds |-> Car(c, "Available")]
    /\ bookings = <<>>
    /\ payments = <<>>
    /\ last = Idle
    /\ procs = [i \in Instances |-> IdleProc]
    /\ quote = NoQuote
    /\ users = <<>>
    /\ auth = <<>>
    /\ reply = NoReply
    /\ form = NoForm
    /\ current_user = NoUser

\* A call of create_booking with a freshly generated booking id. The store
\* holds at most MaxBookings bookings: a call that would add one more is
\* left out, a call that is refused is not.
CreateBooking(car_id, s, e, faults) ==
    /\ last = Idle
    /\ UNCHANGED aside
    /\ LET id == generate_id(FreshBookingIds, DOMAIN bookings)
           booking == Booking(id, car_id, s, e,
                              calculate_total_amount(DailyRate(car_id), s, e))
       IN /\ create_booking_ret(booking, faults) => id \in BookingIds
          /\ create_booking(booking, faults)
          /\ last' = Call("create_booking", id, car_id, s, e, faults,
                          create_booking_ret(booking, faults))
    /\ UNCHANGED payments

CancelBooking(booking_id, faults) ==
    /\ last = Idle
    /\ UNCHANGED aside
    /\ cancel_booking(booking_id, faults)
    /\ last' = Call("cancel_booking", booking_id, NoCar, 0, 0, faults,
                    finish_booking_ret(booking_id, faults))
    /\ UNCHANGED payments

CompleteBooking(booking_id, faults) ==
    /\ last = Idle
    /\ UNCHANGED aside
    /\ complete_booking(booking_id, faults)
    /\ last' = Call("complete_booking", booking_id, NoCar, 0, 0, faults,
                    finish_booking_ret(booking_id, faults))
    /\ UNCHANGED payments

\* The call has returned and its result was shown: back to the event loop.
Return ==
    /\ last # Idle
    /\ last' = Idle
    /\ UNCHANGED <<cars, bookings, payments>>
    /\ UNCHANGED aside

\* Serialized calls of the booking operations, the store never failing.
\* The ranges are those callers pass: confirm_booking builds the Booking only
\* after checking end_date > start_date.
Next ==
    \/ \E c \in CarIds, s \in Days, e \in Days : s < e /\ CreateBooking(c, s, e, {})
    \/ \E b \in BookingIds : CancelBooking(b, {})
    \/ \E b \in BookingIds : CompleteBooking(b, {})
    \/ Return

Spec == Init /\ [][Next]_vars

\* The same calls with the store failing before anything is written: the
\* Active-bookings query or the booking insert of create_booking, the
\* booking read of cancel_booking and complete_booking.
NextFail ==
    \/ \E c \in CarIds, s \in Days, e \in Days, f \in {"none", "query", "set"} :
          s < e /\ CreateBooking(c, s, e, {f} \cap Faults)
    \/ \E b \in BookingIds, f \in {"none", "get"} : CancelBooking(b, {f} \cap Faults)
    \/ \E b \in BookingIds, f \in {"none", "get"} : CompleteBooking(b, {f} \cap Faults)
    \/ Return

SpecFail == Init /\ [][NextFail]_vars

\* The same calls with one of the document updates failing: the car status
\* update of create_booking, the booking status update or the car status
\* update of cancel_booking and complete_booking.
NextWriteFail ==
    \/ \E c \in CarIds, s \in Days, e \in Days, f \in {"none", "update_car"} :
          s < e /\ CreateBooking(c, s, e, {f} \cap Faults)
    \/ \E b \in BookingIds, f \in {"none", "update_booking", "update_car"} :
          CancelBooking(b, {f} \cap Faults)
    \/ \E b \in BookingIds, f \in {"none", "update_booking", "update_car"} :
          CompleteBooking(b, {f} \cap Faults)
    \/ Return

SpecWriteFail == Init /\ [][NextWriteFail]_vars

\* ------------------------------------------- customer and admin handlers
\* Mutant of the range validation: equal dates let through.
InvalidRangeStrict(start_date, end_date) == end_date < start_date

\* if end_date <= start_date: "End date must be after start date"
InvalidRange(start_date, end_date) == end_date <= start_date

\* document(payment_id).set(payment.to_dict())
create_payment(payment) ==
    [p \in DOMAIN payments \cup {payment.payment_id} |->
        IF p = payment.payment_id THEN payment ELSE payments[p]]

\* sum(p.amount for p in payments) over the payments with the given ids.
RECURSIVE SumAmounts(_)
SumAmounts(ids) ==
    IF ids = {} THEN 0
    ELSE payments[Min(ids)].amount + SumAmounts(ids \ {Min(ids)})

\* Mutant of total_revenue: the payments of cancelled bookings left out.
total_revenue_not_cancelled ==
    SumAmounts({p \in DOMAIN payments :
                  ~(/\ payments[p].booking_id \in DOMAIN bookings
                    /\ bookings[payments[p].booking_id].status = "Cancelled")})

\* Database.get_dashboard_stats()['total_revenue']: get_all_payments summed.
total_revenue == SumAmounts(DOMAIN payments)

\* CustomerDashboard.show_booking_dialog.confirm_booking for a car of the
\* get_available_cars listing just fetched. It validates the dates, asks
\* check_car_availability with the date values of the form, builds the
\* Booking, calls create_booking and, when that returned True, stores the
\* Payment. The faults are those of the store calls inside create_booking.
ConfirmBooking(car_id, s, e, faults) ==
    /\ last = Idle
    /\ UNCHANGED aside
    /\ car_id \in DOMAIN cars /\ cars[car_id].status = "Available"
    /\ LET id == generate_id(FreshBookingIds, DOMAIN bookings)
           total_amount == calculate_total_amount(cars[car_id].daily_rate, s, e)
           booking == Booking(id, car_id, s, e, total_amount)
           rejected == \/ InvalidRange(s, e)
                       \/ s < Today
                       \/ ~check_car_availability(car_id, s, e, NoId, FALSE, {})
           created == ~rejected /\ create_booking_ret(booking, faults)
       IN /\ created => id \in BookingIds
          /\ IF rejected
             THEN UNCHANGED <<bookings, cars, payments>>
             ELSE /\ create_booking(booking, faults)
                  /\ payments' =
                        IF created
                        THEN create_payment(Payment(generate_id(PaymentIds, DOMAIN payments),
                                                    id, total_amount))
                        ELSE payments
          /\ last' = Call("confirm_booking", id, car_id, s, e, faults, created)

\* CustomerDashboard.handle_booking_action on a row of the bookings list
\* just fetched: cancel an Active booking, show the details of any other.
HandleBookingAction(booking_id) ==
    /\ last = Idle
    /\ UNCHANGED aside
    /\ booking_id \in DOMAIN bookings
    /\ IF bookings[booking_id].status = "Active"
       THEN /\ cancel_booking(booking_id, {})
            /\ last' = Call("cancel_booking", booking_id, NoCar, 0, 0, {},
                            finish_booking_ret(booking_id, {}))
       ELSE /\ UNCHANGED <<bookings, cars>>
            /\ last' = Call("show_booking_details", booking_id, NoCar, 0, 0, {}, FALSE)
    /\ UNCHANGED payments

\* AdminDashboard.manage_booking.complete: the button exists for a booking
\* listed as Active.
ManageBookingComplete(booking_id) ==
    /\ last = Idle
    /\ UNCHANGED aside
    /\ booking_id \in DOMAIN bookings
    /\ bookings[booking_id].status = "Active"
    /\ complete_booking(booking_id, {})
    /\ last' = Call("complete_booking", booking_id, NoCar, 0, 0, {},
                    finish_booking_ret(booking_id, {}))
    /\ UNCHANGED payments

\* One client at a time, every handler run on a freshly fetched listing.
NextUI ==
    \/ \E c \in CarIds, s \in Days, e \in Days : ConfirmBooking(c, s, e, {})
    \/ \E b \in BookingIds : HandleBookingAction(b)
    \/ \E b \in BookingIds : ManageBookingComplete(b)
    \/ Return

SpecUI == Init /\ [][NextUI]_vars

\* The same handlers with the booking insert of create_booking failing:
\* confirm_booking gets False back after its own checks have passed.
NextUIFail ==
    \/ \E c \in CarIds, s \in Days, e \in Days, f \in {"none", "set"} :
          ConfirmBooking(c, s, e, {f} \cap Faults)
    \/ \E b \in BookingIds : HandleBookingAction(b)
    \/ \E b \in BookingIds : ManageBookingComplete(b)
    \/ Return

SpecUIFail == Init /\ [][NextUIFail]_vars

\* ---------------------------------------------------------------------
\* The car maintenance of the admin next to the booking operations.
CarStatuses == {"Available", "Booked", "Maintenance"}

\* Mutant of delete_car: the bookings of the car deleted with it.
delete_car_cascade(car_id) ==
    /\ cars' = [c \in DOMAIN cars \ {car_id} |-> cars[c]]
    /\ bookings' = [b \in {x \in DOMAIN bookings : bookings[x].car_id # car_id} |->
                      bookings[b]]

\* Mutant of delete_car: a car with Active bookings kept.
delete_car_guarded(car_id) ==
    /\ cars' = IF \E b \in DOMAIN bookings :
                     bookings[b].car_id = car_id /\ bookings[b].status = "Active"
               THEN cars
               ELSE [c \in DOMAIN cars \ {car_id} |-> cars[c]]
    /\ bookings' = bookings

\* Database.delete_car: document(car_id).delete(), nothing else.
delete_car(car_id) ==
    /\ cars' = [c \in DOMAIN cars \ {car_id} |-> cars[c]]
    /\ bookings' = bookings

\* AdminDashboard.confirm_delete_car on a car of the listing.
ConfirmDeleteCar(car_id) ==
    /\ last = Idle
    /\ UNCHANGED aside
    /\ car_id \in DOMAIN cars
    /\ delete_car(car_id)
    /\ last' = Call("delete_car", NoId, car_id, 0, 0, {}, TRUE)
    /\ UNCHANGED payments

\* AdminDashboard.show_car_form_dialog.save_car on an existing car: the
\* fields of the form, the status among them, written with update_car.
SaveCar(car_id, status) ==
    /\ last = Idle
    /\ UNCHANGED aside
    /\ car_id \in DOMAIN cars
    /\ cars' = update_car_status(car_id, status, {})
    /\ last' = Call("update_car", NoId, car_id, 0, 0, {}, update_car_ok(car_id, {}))
    /\ UNCHANGED <<bookings, payments>>

\* The bookings are one-day bookings: several can be Active on one car.
NextAdmin ==
    \/ \E c \in CarIds, s \in Days, e \in Days : e = s + 1 /\ CreateBooking(c, s, e, {})
    \/ \E b \in BookingIds : CancelBooking(b, {})
    \/ \E b \in BookingIds : CompleteBooking(b, {})
    \/ \E c \in CarIds : ConfirmDeleteCar(c)
    \/ \E c \in CarIds, st \in CarStatuses : SaveCar(c, st)
    \/ Return

SpecAdmin == Init /\ [][NextAdmin]_vars

\* The car edit of the admin in two steps, with booking operations of other
\* clients between them.
frame == <<procs, quote, users, auth, reply, current_user>>

\* AdminDashboard.show_car_form_dialog(car): the status selector starts at
\* the status of the car as listed.
OpenCarForm(car_id) ==
    /\ last = Idle
    /\ form = NoForm
    /\ car_id \in DOMAIN cars
    /\ form' = CarForm(car_id, cars[car_id].status)
    /\ UNCHANGED <<cars, bookings, payments, last>>
    /\ UNCHANGED frame

\* save_car with the selector left alone: update_car writes the fields of
\* the form, the status the selector shows among them.
SaveOpenForm ==
    /\ last = Idle
    /\ form # NoForm
    /\ cars' = update_car_status(form.car_id, form.status, {})
    /\ last' = Call("save_car", NoId, form.car_id, 0, 0, {},
                    update_car_ok(form.car_id, {}))
    /\ form' = NoForm
    /\ UNCHANGED <<bookings, payments>>
    /\ UNCHANGED frame

NextEdit ==
    \/ \E c \in CarIds, s \in Days, e \in Days : s < e /\ CreateBooking(c, s, e, {})
    \/ \E b \in BookingIds : CancelBooking(b, {})
    \/ \E b \in BookingIds : CompleteBooking(b, {})
    \/ \E c \in CarIds : OpenCarForm(c)
    \/ SaveOpenForm
    \/ Return

SpecEdit == Init /\ [][NextEdit]_vars

\* ---------------------------------------------------------------------
\* The end-to-end run of one car: a first booking, attempts at a range
\* that overlaps it, the cancellation of the first booking.  The days are
\* those of the run, 1 to 6.
ScenarioDays == 1..6

\* Database.create_booking on a store without bookings.
BookFirst(car_id, s, e) ==
    /\ bookings = <<>>
    /\ CreateBooking(car_id, s, e, {})

\* Database.create_booking of the first booking's car for a range that
\* overlaps the first booking's range.
BookOverlapping(s, e) ==
    /\ DOMAIN bookings = {1}
    /\ s < bookings[1].end_date /\ bookings[1].start_date < e
    /\ CreateBooking(bookings[1].car_id, s, e, {})

\* Database.cancel_booking of the first booking.
CancelFirst ==
    /\ DOMAIN bookings = {1}
    /\ bookings[1].status = "Active"
    /\ CancelBooking(1, {})

NextScenario ==
    \/ \E c \in CarIds, s \in ScenarioDays, e \in ScenarioDays :
          s < e /\ BookFirst(c, s, e)
    \/ \E s \in ScenarioDays, e \in ScenarioDays : s < e /\ BookOverlapping(s, e)
    \/ CancelFirst
    \/ Return

SpecScenario == Init /\ [][NextScenario]_vars

\* ---------------------------------------------------------------------
\* Two application instances inside Database.create_booking at the same
\* time.  Each store call is one step: the Active-bookings query of
\* check_car_availability, the booking insert, the car status update.

\* The ids the other instances have generated for bookings not yet stored.
HeldIds(i) == {procs[j].booking.booking_id : j \in Instances \ {i}}

\* Instance i enters create_booking(booking) with a generated booking id.
RaceCall(i, car_id, s, e) ==
    /\ procs[i].pc = "idle"
    /\ LET id == generate_id(FreshBookingIds \ HeldIds(i), DOMAIN bookings)
       IN /\ id \in BookingIds
          /\ procs' = [procs EXCEPT
                ![i] = [pc |-> "check",
                        booking |-> Booking(id, car_id, s, e,
                                     calculate_total_amount(DailyRate(car_id), s, e)),
                        ret |-> FALSE]]
    /\ UNCHANGED <<cars, bookings, payments, last>>
    /\ UNCHANGED <<quote, users, auth, reply, form, current_user>>

\* if not self.check_car_availability(...): return False
RaceCheck(i) ==
    /\ procs[i].pc = "check"
    /\ LET b == procs[i].booking
           free == check_car_availability(b.car_id, b.start_date, b.end_date,
                                          NoId, TRUE, {})
       IN procs' = [procs EXCEPT ![i].pc = IF free THEN "set" ELSE "done"]
    /\ UNCHANGED <<cars, bookings, payments, last>>
    /\ UNCHANGED <<quote, users, auth, reply, form, current_user>>

\* self.bookings_ref.document(booking.booking_id).set(booking.to_dict())
RaceSet(i) ==
    /\ procs[i].pc = "set"
    /\ bookings' = SetBooking(procs[i].booking)
    /\ procs' = [procs EXCEPT ![i].pc = "update_car"]
    /\ UNCHANGED <<cars, payments, last>>
    /\ UNCHANGED <<quote, users, auth, reply, form, current_user>>

\* self.update_car_status(booking.car_id, 'Booked'); return True
RaceUpdateCar(i) ==
    /\ procs[i].pc = "update_car"
    /\ cars' = update_car_status(procs[i].booking.car_id, "Booked", {})
    /\ procs' = [procs EXCEPT ![i].pc = "done", ![i].ret = TRUE]
    /\ UNCHANGED <<bookings, payments, last>>
    /\ UNCHANGED <<quote, users, auth, reply, form, current_user>>

\* The caller of instance i has taken the result.
RaceReturn(i) ==
    /\ procs[i].pc = "done"
    /\ procs' = [procs EXCEPT ![i] = IdleProc]
    /\ UNCHANGED <<cars, bookings, payments, last>>
    /\ UNCHANGED <<quote, users, auth, reply, form, current_user>>

NextRace ==
    \/ \E i \in Instances, c \in CarIds, s \in Days, e \in Days :
          s < e /\ RaceCall(i, c, s, e)
    \/ \E i \in Instances : RaceCheck(i)
    \/ \E i \in Instances : RaceSet(i)
    \/ \E i \in Instances : RaceUpdateCar(i)
    \/ \E i \in Instances : RaceReturn(i)

SpecRace == Init /\ [][NextRace]_vars

\* ---------------------------------------------------------------------
\* utils.calculate_total_amount as a function of its arguments: integer
\* daily rates, dates in either order.
Rates == {0, 1, 900, 1500}
PriceDays == 0..MaxPriceDay

InitPricing ==
    /\ cars = [c \in CarIds |-> Car(c, "Available")]
    /\ bookings = <<>>
    /\ payments = <<>>
    /\ last = Idle
    /\ procs = [i \in Instances |-> IdleProc]
    /\ users = <<>>
    /\ auth = <<>>
    /\ reply = NoReply
    /\ form = NoForm
    /\ current_user = NoUser
    /\ \E r \in Rates, s \in PriceDays, e \in PriceDays :
          quote = Quote(r, s, e, FALSE, 0, 0)

\* days = calculate_days(start_date, end_date); return daily_rate * days
CalculateTotal ==
    /\ ~quote.computed
    /\ quote' = [quote EXCEPT
          !.computed = TRUE,
          !.days = calculate_days(quote.start_date, quote.end_date),
          !.total = calculate_total_amount(quote.daily_rate, quote.start_date,
                                           quote.end_date)]
    /\ UNCHANGED <<cars, bookings, payments, last, procs, users, auth, reply>>
    /\ UNCHANGED <<form, current_user>>

NextPricing == CalculateTotal

SpecPricing == InitPricing /\ [][NextPricing]_vars

\* ---------------------------------------------------------------------
\* AuthManager.register_user over the users and auth collections.
UserIds == 1..MaxUsers
FreshUserIds == 1..(MaxUsers + 1)
\* Emails are compared as stored: two of them differ only in case.
Emails == {"ann@x.org", "Ann@x.org", "bob@x.org"}
Passwords == {"pw1", "pw2"}
Roles == {"customer", "admin"}
\* The store calls of register_user and login that can raise.
AuthFaults == {"get_user", "create_user", "set_auth", "get_auth"}

User(uid, email, role) == [uid |-> uid, email |-> email, role |-> role]

\* hashlib.sha256(password.encode()).hexdigest(): equal digests for equal
\* passwords only.
hash_password(password) == <<"sha256", password>>

\* Mutant of get_user_by_email: a query that matches no document.
get_user_by_email_none(email, faults) == {}

\* Database.get_user_by_email: the users whose email field equals email;
\* none when the query raises.
get_user_by_email(email, faults) ==
    IF "get_user" \in faults
    THEN {}
    ELSE {u \in DOMAIN users : users[u].email = email}

\* Database.create_user: document(uid).set(user.to_dict())
create_user(user) ==
    [u \in DOMAIN users \cup {user.uid} |-> IF u = user.uid THEN user ELSE users[u]]

\* collection('auth').document(uid).set({email, password_hash})
SetAuth(uid, email, password) ==
    [u \in DOMAIN auth \cup {uid} |->
        IF u = uid
        THEN [email |-> email, password_hash |-> hash_password(password)]
        ELSE auth[u]]

\* AuthManager.register_user
RegisterUser(email, password, role, faults) ==
    /\ reply = NoReply
    /\ LET uid == generate_id(FreshUserIds, DOMAIN users)
       IN IF get_user_by_email(email, faults) # {}
          THEN /\ reply' = AuthReply("register_user", email, FALSE,
                                     "Email already registered", NoUser)
               /\ UNCHANGED <<users, auth>>
          ELSE IF "create_user" \in faults
          THEN /\ reply' = AuthReply("register_user", email, FALSE,
                                     "Failed to create user", NoUser)
               /\ UNCHANGED <<users, auth>>
          ELSE /\ uid \in UserIds
               /\ users' = create_user(User(uid, email, role))
               /\ IF "set_auth" \in faults
                  THEN /\ reply' = AuthReply("register_user", email, FALSE,
                                             "Registration error", NoUser)
                       /\ auth' = auth
                  ELSE /\ reply' = AuthReply("register_user", email, TRUE,
                                             "Registration successful", NoUser)
                       /\ auth' = SetAuth(uid, email, password)
    /\ UNCHANGED <<cars, bookings, payments, last, procs, quote, form, current_user>>

\* The window has shown the message of the call.
AuthReturn ==
    /\ reply # NoReply
    /\ reply' = NoReply
    /\ UNCHANGED <<cars, bookings, payments, last, procs, quote, users, auth>>
    /\ UNCHANGED <<form, current_user>>

\* Serialized registrations, the store never failing.
NextAuth ==
    \/ \E m \in Emails, p \in Passwords, r \in Roles : RegisterUser(m, p, r, {})
    \/ AuthReturn

SpecAuth == Init /\ [][NextAuth]_vars

\* ---------------------------------------------------------------------
\* AuthManager.login and logout over the session field current_user.

\* users[0] of get_user_by_email: the first matching document, None when
\* there is none.
FirstUser(found) == IF found = {} THEN NoUser ELSE users[Min(found)]

\* Mutant of the session write: current_user set as soon as the user is found.
login_session_before_check(user, ok) == IF user # NoUser THEN user ELSE current_user

\* self.current_user = user, reached only on the successful path.
login_session(user, ok) == IF ok THEN user ELSE current_user

\* AuthManager.login
Login(email, password, faults) ==
    /\ reply = NoReply
    /\ LET user == FirstUser(get_user_by_email(email, faults))
           raised == user # NoUser /\ "get_auth" \in faults
           has_auth == user.uid \in DOMAIN auth
           ok == /\ user # NoUser
                 /\ ~raised
                 /\ has_auth
                 /\ auth[user.uid].password_hash = hash_password(password)
           msg == IF user = NoUser THEN "Invalid email or password"
                  ELSE IF raised THEN "Login error"
                  ELSE IF ~has_auth THEN "Authentication data not found"
                  ELSE IF ~ok THEN "Invalid email or password"
                  ELSE "Login successful"
       IN /\ current_user' = login_session(user, ok)
          /\ reply' = AuthReply("login", email, ok, msg, IF ok THEN user ELSE NoUser)
    /\ UNCHANGED <<cars, bookings, payments, last, procs, quote, form, users, auth>>

\* AuthManager.logout, called by LoginWindow.on_dashboard_close.
Logout ==
    /\ reply = NoReply
    /\ current_user' = NoUser
    /\ reply' = AuthReply("logout", "", TRUE, "", NoUser)
    /\ UNCHANGED <<cars, bookings, payments, last, procs, quote, form, users, auth>>

\* AuthManager.is_logged_in
is_logged_in == current_user # NoUser

\* Registrations, some leaving a user without auth record, logins with the
\* store failing or not, logouts.
NextSession ==
    \/ \E m \in Emails, p \in Passwords, f \in {"none", "set_auth"} :
          RegisterUser(m, p, "customer", {f} \cap AuthFaults)
    \/ \E m \in Emails, p \in Passwords, f \in {"none", "get_user", "get_auth"} :
          Login(m, p, {f} \cap AuthFaults)
    \/ Logout
    \/ AuthReturn

SpecSession == Init /\ [][NextSession]_vars

\* ------------------------------------------------------------ properties
ActiveOn(car_id) ==
    {b \in DOMAIN bookings :
        bookings[b].car_id = car_id /\ bookings[b].status = "Active"}

\* C1: for every car, any two distinct Active bookings have non-overlapping
\* half-open intervals: b1.start < b2.end and b2.start < b1.end never both hold.
C1_NoOverlap ==
    \A b1 \in DOMAIN bookings, b2 \in DOMAIN bookings :
        (/\ b1 # b2
         /\ bookings[b1].car_id = bookings[b2].car_id
         /\ bookings[b1].status = "Active"
         /\ bookings[b2].status = "Active")
        => ~(/\ bookings[b1].start_date < bookings[b2].end_date
             /\ bookings[b2].start_date < bookings[b1].end_date)

\* Two Active bookings on one car, after a create, a cancel and a create.
C1_Witness ==
    /\ last.op = "create_booking" /\ last.ret
    /\ \E c \in CarIds : Cardinality(ActiveOn(c)) >= 2

\* C2: check_car_availability(car, s, e, exclude) is False exactly when an
\* Active booking of that car, other than the excluded one, satisfies
\* NOT(e <= start OR s >= end); Cancelled and Completed bookings and bookings
\* of other cars never make it False.
C2_AvailabilityIff ==
    \A c \in CarIds, s \in Days, e \in Days, x \in BookingIds \cup {NoId} :
        (check_car_availability(c, s, e, x, TRUE, {}) = FALSE)
        <=> \E b \in DOMAIN bookings :
               /\ bookings[b].car_id = c
               /\ bookings[b].status = "Active"
               /\ (x = NoId \/ b # x)
               /\ ~(e <= bookings[b].start_date \/ s >= bookings[b].end_date)

\* A create was refused by the check while a booking that is not Active
\* covers a range of the same car that is reported available.
C2_Witness ==
    /\ last.op = "create_booking" /\ ~last.ret
    /\ ~check_car_availability(last.car, last.s, last.e, NoId, TRUE, {})
    /\ \E b \in DOMAIN bookings :
          /\ bookings[b].status # "Active"
          /\ check_car_availability(bookings[b].car_id, bookings[b].start_date,
                                    bookings[b].end_date, NoId, TRUE, {})

\* The car's Active bookings are exactly one, which ends on day s or starts
\* on day e.
OnlyActiveTouches(car_id, s, e) ==
    \E b \in DOMAIN bookings :
        /\ ActiveOn(car_id) = {b}
        /\ (bookings[b].end_date = s \/ bookings[b].start_date = e)

\* C3: when a car's only Active booking ends on day D, a request starting on
\* D is reported available and create_booking stores it; the same for a
\* request ending on the day the only Active booking starts.
C3_HalfOpenBoundary ==
    [][(last'.op = "create_booking" /\ OnlyActiveTouches(last'.car, last'.s, last'.e))
       => /\ check_car_availability(last'.car, last'.s, last'.e, NoId, TRUE, {})
          /\ last'.ret
          /\ last'.bid \in DOMAIN bookings'
          /\ bookings'[last'.bid].status = "Active"
          /\ bookings'[last'.bid].start_date = last'.s
          /\ bookings'[last'.bid].end_date = last'.e]_vars

\* A booking was created that starts on the day the other Active booking of
\* its car ends.
C3_Witness ==
    /\ last.op = "create_booking" /\ last.ret
    /\ \E b \in DOMAIN bookings :
          /\ ActiveOn(last.car) = {b, last.bid}
          /\ b # last.bid
          /\ bookings[b].end_date = last.s

\* C6: a create whose range overlaps an Active booking of the same car
\* returns False and writes nothing: no booking, no car status.
C6_OverlapRejected ==
    [][(/\ last'.op = "create_booking"
        /\ \E b \in ActiveOn(last'.car) :
              /\ last'.s < bookings[b].end_date
              /\ bookings[b].start_date < last'.e)
       => (~last'.ret /\ bookings' = bookings /\ cars' = cars)]_vars

\* A refused create whose range overlaps an Active booking of its car.
C6_Witness ==
    /\ last.op = "create_booking" /\ ~last.ret
    /\ \E b \in ActiveOn(last.car) :
          last.s < bookings[b].end_date /\ bookings[b].start_date < last.e

\* C7: after create_booking returned True the store holds the new booking,
\* Active, under its booking_id, and the referenced car is Booked.
C7_CreatePersists ==
    (last.op = "create_booking" /\ last.ret)
    => /\ last.bid \in DOMAIN bookings
       /\ bookings[last.bid].booking_id = last.bid
       /\ bookings[last.bid].car_id = last.car
       /\ bookings[last.bid].start_date = last.s
       /\ bookings[last.bid].end_date = last.e
       /\ bookings[last.bid].status = "Active"
       /\ cars[last.car].status = "Booked"

\* A create that returned True on a car set Available by an earlier cancel.
C7_Witness ==
    /\ last.op = "create_booking" /\ last.ret
    /\ \E b \in DOMAIN bookings :
          bookings[b].car_id = last.car /\ bookings[b].status = "Cancelled"

\* C8: a booking's status only ever changes from Active to Completed or from
\* Active to Cancelled; Completed and Cancelled are terminal.
C8_OneWayStatus ==
    [][\A b \in DOMAIN bookings :
          bookings'[b].status # bookings[b].status
          => /\ bookings[b].status = "Active"
             /\ bookings'[b].status \in {"Completed", "Cancelled"}]_vars

\* C9: cancel_booking or complete_booking on a booking that is already
\* Cancelled or Completed returns failure and changes neither the booking
\* nor the status of its car.
C9_FinishedNotReapplied ==
    [][(/\ last'.op \in {"cancel_booking", "complete_booking"}
        /\ last'.bid \in DOMAIN bookings
        /\ bookings[last'.bid].status # "Active")
       => (~last'.ret /\ cars' = cars /\ bookings' = bookings)]_vars

\* C10: cancel_booking and complete_booking with a booking id that is not in
\* the store return False and change no booking and no car.
C10_UnknownBooking ==
    [][(/\ last'.op \in {"cancel_booking", "complete_booking"}
        /\ last'.bid \notin DOMAIN bookings)
       => (~last'.ret /\ bookings' = bookings /\ cars' = cars)]_vars

\* A cancel of an unknown id returned False while a booked car exists.
C10_Witness ==
    /\ last.op = "cancel_booking" /\ ~last.ret
    /\ last.bid \notin DOMAIN bookings
    /\ \E c \in CarIds : ActiveOn(c) # {} /\ cars[c].status = "Booked"

\* C4: when the store fails while check_car_availability fetches the Active
\* bookings, the check returns False, and create_booking returns False
\* without writing a booking or changing a car status.
C4_FailClosed ==
    [][(last'.op = "create_booking" /\ "query" \in last'.faults)
       => /\ ~check_car_availability(last'.car, last'.s, last'.e, NoId, TRUE, last'.faults)
          /\ ~last'.ret
          /\ bookings' = bookings
          /\ cars' = cars]_vars

\* A create on a car without any Active booking was refused because the
\* query failed.
C4_Witness ==
    /\ last.op = "create_booking" /\ "query" \in last.faults /\ ~last.ret
    /\ ActiveOn(last.car) = {}
    /\ bookings # <<>>

\* C5: a booking request whose end date is not after its start date fails,
\* stores no booking and no payment and changes no car status; every stored
\* booking has end_date > start_date.
C5_RangeValidated ==
    [][/\ (last'.op = "confirm_booking" /\ last'.e <= last'.s)
          => (~last'.ret /\ bookings' = bookings /\ cars' = cars /\ payments' = payments)
       /\ \A b \in DOMAIN bookings' :
             bookings'[b].end_date > bookings'[b].start_date]_vars

\* A request with end_date <= start_date was refused after a booking had
\* been stored.
C5_Witness ==
    /\ last.op = "confirm_booking" /\ last.e <= last.s /\ ~last.ret
    /\ bookings # <<>>

\* C11: on an existing Active booking cancel_booking returns True, makes the
\* booking Cancelled and sets its car Available whatever other Active
\* bookings the car has; complete_booking does the same with Completed.
C11_FinishActive ==
    [][(/\ last'.op \in {"cancel_booking", "complete_booking"}
        /\ last'.bid \in DOMAIN bookings
        /\ bookings[last'.bid].status = "Active")
       => /\ last'.ret
          /\ bookings'[last'.bid].status =
                (IF last'.op = "cancel_booking" THEN "Cancelled" ELSE "Completed")
          /\ cars'[bookings[last'.bid].car_id].status = "Available"]_vars

\* A cancel returned True and left its car Available while another booking
\* of that car is Active.
C11_Witness ==
    /\ last.op = "cancel_booking" /\ last.ret
    /\ last.bid \in DOMAIN bookings
    /\ bookings[last.bid].status = "Cancelled"
    /\ cars[bookings[last.bid].car_id].status = "Available"
    /\ ActiveOn(bookings[last.bid].car_id) # {}

\* C12 (as claimed): a car is Booked if and only if an Active booking
\* references it.
C12_StatusIffActive ==
    \A c \in DOMAIN cars : (cars[c].status = "Booked") <=> (ActiveOn(c) # {})

\* C12 (amended): a car that is Booked has an Active booking; a car with an
\* Active booking may be Available.
C12_BookedHasActive ==
    \A c \in DOMAIN cars : (cars[c].status = "Booked") => (ActiveOn(c) # {})

\* A car is still Booked after a booking of the other car was cancelled or
\* completed.
C12_Witness ==
    /\ last.op \in {"cancel_booking", "complete_booking"} /\ last.ret
    /\ \E c \in DOMAIN cars :
          /\ cars[c].status = "Booked"
          /\ bookings[last.bid].car_id # c

\* C13: from an Available car without bookings the first booking succeeds
\* (Active, car Booked); while it is Active a request for an overlapping
\* range is rejected; once it is cancelled the car is Available and the
\* overlapping request succeeds (Active, car Booked).
C13_EndToEnd ==
    /\ (last.op = "create_booking" /\ last.bid = 1)
          => /\ last.ret
             /\ DOMAIN bookings = {1}
             /\ bookings[1].status = "Active"
             /\ bookings[1].car_id = last.car
             /\ cars[last.car].status = "Booked"
    /\ (last.op = "create_booking" /\ last.bid = 2 /\ bookings[1].status = "Active")
          => /\ ~last.ret
             /\ DOMAIN bookings = {1}
    /\ last.op = "cancel_booking"
          => /\ last.ret
             /\ bookings[1].status = "Cancelled"
    /\ (DOMAIN bookings = {1} /\ bookings[1].status = "Cancelled")
          => cars[bookings[1].car_id].status = "Available"
    /\ (last.op = "create_booking" /\ last.bid = 2 /\ bookings[1].status = "Cancelled")
          => /\ last.ret
             /\ bookings[2].status = "Active"
             /\ bookings[2].car_id = bookings[1].car_id
             /\ cars[bookings[2].car_id].status = "Booked"

\* The run of the text: [1,5) booked and cancelled, then [3,6) booked.
C13_Witness ==
    /\ DOMAIN bookings = {1, 2}
    /\ bookings[1].start_date = 1 /\ bookings[1].end_date = 5
    /\ bookings[1].status = "Cancelled"
    /\ bookings[2].start_date = 3 /\ bookings[2].end_date = 6
    /\ bookings[2].status = "Active"
    /\ bookings[2].car_id = bookings[1].car_id
    /\ cars[bookings[2].car_id].status = "Booked"
    /\ last.op = "create_booking" /\ last.ret

\* C14: of two create_booking calls of two instances for the same car and
\* overlapping ranges at most one returns True, and the store never holds
\* two overlapping Active bookings of one car.
C14_AtMostOneWinner ==
    /\ \A i \in Instances, j \in Instances :
          (/\ i # j
           /\ procs[i].pc = "done" /\ procs[j].pc = "done"
           /\ procs[i].booking.car_id = procs[j].booking.car_id
           /\ procs[i].booking.start_date < procs[j].booking.end_date
           /\ procs[j].booking.start_date < procs[i].booking.end_date)
          => ~(procs[i].ret /\ procs[j].ret)
    /\ \A a \in DOMAIN bookings, b \in DOMAIN bookings :
          (/\ a # b
           /\ bookings[a].car_id = bookings[b].car_id
           /\ bookings[a].status = "Active" /\ bookings[b].status = "Active")
          => (\/ bookings[a].end_date <= bookings[b].start_date
              \/ bookings[b].end_date <= bookings[a].start_date)

\* C15: calculate_total_amount(rate, start, end) is rate times the larger of
\* 1 and end - start in days: 1500 over 3 days is 4500, 1500 for start = end
\* is 1500, and the day count is at least 1, also when end precedes start.
C15_Pricing ==
    quote.computed =>
        LET d == quote.end_date - quote.start_date
        IN /\ quote.total = quote.daily_rate * (IF d >= 1 THEN d ELSE 1)
           /\ quote.days >= 1
           /\ (quote.daily_rate = 1500 /\ d = 3) => quote.total = 4500
           /\ (quote.daily_rate = 1500 /\ d = 0) => quote.total = 1500
           /\ d < 0 => (quote.days = 1 /\ quote.total = quote.daily_rate)

\* 1500 a day from day 0 to day 3 was priced at 4500.
C15_Witness ==
    /\ quote.computed
    /\ quote.daily_rate = 1500 /\ quote.start_date = 0 /\ quote.end_date = 3
    /\ quote.total = 4500

\* The payments that reference a booking.
PaymentsOf(booking_id) ==
    {p \in DOMAIN payments : payments[p].booking_id = booking_id}

\* C16: in the customer flow every payment references a stored booking and
\* carries that booking's total_amount, every stored booking has exactly one
\* payment, and a confirm_booking whose create_booking returned False
\* stored no payment for its booking id.
C16_PaymentPerBooking ==
    /\ \A p \in DOMAIN payments :
          /\ payments[p].booking_id \in DOMAIN bookings
          /\ payments[p].amount = bookings[payments[p].booking_id].total_amount
    /\ \A b \in DOMAIN bookings : Cardinality(PaymentsOf(b)) = 1
    /\ (last.op = "confirm_booking" /\ ~last.ret) => PaymentsOf(last.bid) = {}

\* A confirm_booking passed its checks, got False from create_booking and
\* stored neither booking nor payment, next to a booking that has its payment.
C16_Witness ==
    /\ last.op = "confirm_booking" /\ ~last.ret /\ "set" \in last.faults
    /\ last.s < last.e /\ ActiveOn(last.car) = {}
    /\ last.bid \notin DOMAIN bookings
    /\ DOMAIN payments # {}

\* C17: no operation removes a booking: create, cancel, complete, car edit
\* and car delete leave every stored booking id in the store.
C17_BookingsKept ==
    [][DOMAIN bookings \subseteq DOMAIN bookings']_vars

\* A car was deleted and a booking that references it is still stored.
C17_Witness ==
    /\ last.op = "delete_car"
    /\ last.car \notin DOMAIN cars
    /\ \E b \in DOMAIN bookings : bookings[b].car_id = last.car

C19_NoRollback ==
    [][(/\ last'.op = "create_booking"
        /\ "update_car" \in last'.faults
        /\ check_car_availability(last'.car, last'.s, last'.e, NoId, TRUE, {}))
       => /\ last'.ret
          /\ last'.bid \in DOMAIN bookings'
          /\ last'.bid \notin DOMAIN bookings
          /\ bookings'[last'.bid].status = "Active"
          /\ bookings'[last'.bid].car_id = last'.car
          /\ cars' = cars]_vars

\* A create returned True with its car status update failed: its booking
\* is Active on a car that is Available.
C19_Witness ==
    /\ last.op = "create_booking" /\ last.ret /\ "update_car" \in last.faults
    /\ last.bid \in DOMAIN bookings
    /\ bookings[last.bid].status = "Active"
    /\ bookings[last.bid].car_id = last.car
    /\ cars[last.car].status = "Available"

\* C20: a cancel_booking or complete_booking whose booking status write or
\* car status write fails returns False.
C20_WriteFailureReturned ==
    [][(/\ last'.op \in {"cancel_booking", "complete_booking"}
        /\ last'.faults \cap {"update_booking", "update_car"} # {})
       => ~last'.ret]_vars

\* The car a booking operation refers to: the car of the Booking passed to
\* create_booking, the car of the stored booking named to cancel_booking or
\* complete_booking.
CarOfCall(call) ==
    IF call.op = "create_booking" THEN call.car
    ELSE IF call.bid \in DOMAIN bookings THEN bookings[call.bid].car_id
    ELSE NoCar

\* C21: create_booking, cancel_booking and complete_booking change nothing
\* of the cars but the status of the car the booking refers to: every other
\* car and every other field stay as they are; cancel_booking and
\* complete_booking change no booking but the one named.
C21_FrameOnCars ==
    [][(last'.op \in {"create_booking", "cancel_booking", "complete_booking"})
       => /\ DOMAIN cars' = DOMAIN cars
          /\ \A c \in DOMAIN cars :
                /\ cars'[c].car_id = cars[c].car_id
                /\ cars'[c].daily_rate = cars[c].daily_rate
                /\ c # CarOfCall(last') => cars'[c] = cars[c]
          /\ last'.op # "create_booking"
                => /\ DOMAIN bookings' = DOMAIN bookings
                   /\ \A b \in DOMAIN bookings \ {last'.bid} :
                         bookings'[b] = bookings[b]]_vars

\* A cancel or complete made its car Available and left the other car
\* Booked and the other booking Active.
C21_Witness ==
    /\ last.op \in {"cancel_booking", "complete_booking"} /\ last.ret
    /\ cars[bookings[last.bid].car_id].status = "Available"
    /\ \E b \in DOMAIN bookings :
          /\ b # last.bid
          /\ bookings[b].status = "Active"
          /\ bookings[b].car_id # bookings[last.bid].car_id
          /\ cars[bookings[b].car_id].status = "Booked"

\* C22: delete_car removes the car and returns True whatever bookings refer
\* to it, and leaves the bookings as they are; cancel_booking and
\* complete_booking of a booking whose car was deleted still return True
\* and write the booking's status.
C22_UnconditionalDelete ==
    /\ [][(last'.op = "delete_car")
           => /\ last'.ret
              /\ last'.car \notin DOMAIN cars'
              /\ bookings' = bookings]_vars
    /\ [][(/\ last'.op \in {"cancel_booking", "complete_booking"}
            /\ last'.bid \in DOMAIN bookings
            /\ bookings[last'.bid].car_id \notin DOMAIN cars)
           => /\ last'.ret
              /\ bookings'[last'.bid].status =
                    (IF last'.op = "cancel_booking" THEN "Cancelled" ELSE "Completed")
              /\ cars' = cars]_vars

\* A car was deleted under two Active bookings; one of them was cancelled
\* with True returned, the other is still Active on the missing car.
C22_Witness ==
    /\ last.op = "cancel_booking" /\ last.ret
    /\ bookings[last.bid].status = "Cancelled"
    /\ bookings[last.bid].car_id \notin DOMAIN cars
    /\ \E b \in DOMAIN bookings :
          /\ bookings[b].status = "Active"
          /\ bookings[b].car_id = bookings[last.bid].car_id

\* C23: for every Active booking b, check_car_availability over b's own car
\* and range returns True with exclude_booking_id = b.booking_id and False
\* without it; the exclusion skips that booking only: with it, a range is
\* free exactly when it overlaps no other Active booking of the car, and
\* the id of another booking does not make b's own range free.
C23_ExcludeOwnBooking ==
    \A b \in DOMAIN bookings :
        bookings[b].status = "Active" =>
            LET bk == bookings[b] IN
            /\ check_car_availability(bk.car_id, bk.start_date, bk.end_date,
                                      b, TRUE, {})
            /\ ~check_car_availability(bk.car_id, bk.start_date, bk.end_date,
                                       NoId, TRUE, {})
            /\ \A x \in BookingIds \ {b} :
                  ~check_car_availability(bk.car_id, bk.start_date, bk.end_date,
                                          x, TRUE, {})
            /\ \A s \in Days, e \in Days :
                  s < e =>
                    (check_car_availability(bk.car_id, s, e, b, TRUE, {})
                       <=> ~\E o \in ActiveOn(bk.car_id) \ {b} :
                              /\ s < bookings[o].end_date
                              /\ bookings[o].start_date < e)

\* Two Active bookings on one car: excluding one of them leaves the other
\* in the way of a range that covers both.
C23_Witness ==
    \E b \in DOMAIN bookings, o \in DOMAIN bookings :
        /\ b # o
        /\ bookings[b].status = "Active" /\ bookings[o].status = "Active"
        /\ bookings[b].car_id = bookings[o].car_id
        /\ check_car_availability(bookings[b].car_id, bookings[b].start_date,
                                  bookings[b].end_date, b, TRUE, {})
        /\ ~check_car_availability(bookings[b].car_id, 0, MaxDay, b, TRUE, {})

\* The Active bookings of a car that overlap [s, e).
Conflicts(car_id, s, e) ==
    {b \in ActiveOn(car_id) : s < bookings[b].end_date /\ bookings[b].start_date < e}

\* C24: the result of check_car_availability and of create_booking is
\* decided by the Active bookings of the car and the requested range,
\* whatever the status fields of the cars are; create_booking succeeds on a
\* car that is Booked when the range overlaps no Active booking.
C24_StatusNotConsulted ==
    /\ [](\A c \in CarIds, s \in Days, e \in Days :
            s < e => (check_car_availability(c, s, e, NoId, TRUE, {})
                        <=> Conflicts(c, s, e) = {}))
    /\ [][(last'.op = "create_booking")
           => (last'.ret <=> Conflicts(last'.car, last'.s, last'.e) = {})]_vars
    /\ [][(/\ last'.op = "create_booking"
            /\ last'.car \in DOMAIN cars
            /\ cars[last'.car].status = "Booked"
            /\ Conflicts(last'.car, last'.s, last'.e) = {})
           => (last'.ret /\ bookings'[last'.bid].status = "Active")]_vars

\* A create succeeded on a car that already had an Active booking for
\* another day.
C24_Witness ==
    /\ last.op = "create_booking" /\ last.ret
    /\ last.car \in DOMAIN cars
    /\ cars[last.car].status = "Booked"
    /\ Cardinality(ActiveOn(last.car)) >= 2

\* C25: create_booking for a car_id that is not stored, with no conflicting
\* booking, stores an Active booking and returns True; the cars are left as
\* they are.
C25_AbsentCarBooked ==
    [][(/\ last'.op = "create_booking"
        /\ last'.car \notin DOMAIN cars
        /\ Conflicts(last'.car, last'.s, last'.e) = {})
       => /\ last'.ret
          /\ last'.bid \in DOMAIN bookings' \ DOMAIN bookings
          /\ bookings'[last'.bid].status = "Active"
          /\ bookings'[last'.bid].car_id = last'.car
          /\ cars' = cars]_vars

\* An Active booking was created on a car that is not stored.
C25_Witness ==
    /\ last.op = "create_booking" /\ last.ret
    /\ last.car \notin DOMAIN cars
    /\ bookings[last.bid].status = "Active"
    /\ bookings[last.bid].car_id = last.car

\* C26: in the single-client flow of the dashboards every car has at most
\* one Active booking, and it is Booked exactly when it has one.
C26_OneActivePerCar ==
    \A c \in DOMAIN cars :
        /\ Cardinality(ActiveOn(c)) <= 1
        /\ (cars[c].status = "Booked") <=> (ActiveOn(c) # {})

\* A car was booked again after its earlier booking was cancelled or
\* completed: one Active booking, the car Booked.
C26_Witness ==
    /\ last.op = "confirm_booking" /\ last.ret
    /\ cars[last.car].status = "Booked"
    /\ ActiveOn(last.car) = {last.bid}
    /\ \E b \in DOMAIN bookings :
          /\ bookings[b].car_id = last.car
          /\ bookings[b].status \in {"Cancelled", "Completed"}

\* C27: saving the car form with the status selector left alone leaves the
\* stored status of the car as it was, whatever booking operations ran on
\* the car since the form was opened.
C27_EditKeepsStatus ==
    [][(last'.op = "save_car" /\ last'.car \in DOMAIN cars)
       => cars'[last'.car].status = cars[last'.car].status]_vars

C29_PaymentsKept ==
    /\ [][(last'.op \in {"cancel_booking", "complete_booking"})
           => payments' = payments]_vars
    /\ [][total_revenue' >= total_revenue]_vars
    /\ [](\A b \in DOMAIN bookings :
            \E p \in DOMAIN payments :
               /\ payments[p].booking_id = b
               /\ payments[p].amount = bookings[b].total_amount
               /\ payments[p].status = "Completed"
               /\ total_revenue >= payments[p].amount)

\* A booking was cancelled: its payment is still stored and counted.
C29_Witness ==
    /\ last.op = "cancel_booking" /\ last.ret
    /\ bookings[last.bid].status = "Cancelled"
    /\ \E p \in DOMAIN payments :
          /\ payments[p].booking_id = last.bid
          /\ payments[p].amount = bookings[last.bid].total_amount
    /\ total_revenue >= bookings[last.bid].total_amount
    /\ total_revenue > 0

\* C30: current_user becomes a user only by a login that returned success
\* and is then the user that login returned; a failed login leaves
\* current_user as it was; logout clears it, so is_logged_in is False from a
\* logout until the next successful login.
C30_SessionState ==
    /\ [][(current_user' # current_user /\ current_user' # NoUser)
           => (reply'.op = "login" /\ reply'.ok)]_vars
    /\ [][(reply'.op = "login" /\ reply'.ok)
           => /\ current_user' = reply'.user
              /\ reply'.user # NoUser
              /\ reply'.user.email = reply'.email
              /\ reply'.user.uid \in DOMAIN users
              /\ users[reply'.user.uid] = reply'.user]_vars
    /\ [][(reply'.op = "login" /\ ~reply'.ok) => current_user' = current_user]_vars
    /\ [][(reply'.op = "logout") => ~is_logged_in']_vars
    /\ [][(~is_logged_in /\ is_logged_in') => (reply'.op = "login" /\ reply'.ok)]_vars

\* A login failed for a missing auth record while another user is logged
\* in: the session still holds that user.
C30_Witness ==
    /\ reply.op = "login" /\ ~reply.ok
    /\ reply.msg = "Authentication data not found"
    /\ is_logged_in
    /\ current_user.email # reply.email

====
